---- MODULE Spec2Model ----
(***************************************************************************)
(* Linked data structure for geo data (src/h3lib/lib/linkedGeo.c).         *)
(*                                                                         *)
(* A three-level intrusive singly-linked structure: a chain of polygons,   *)
(* each the head of a chain of loops, each the head of a chain of          *)
(* coordinates.  The heap is modelled explicitly: every node has an        *)
(* address (a positive integer), an allocation status and its C fields.    *)
(***************************************************************************)
EXTENDS Integers, Sequences, FiniteSets, TLC

\* ------------------------------------------------------------------ bounds
\* The producer makes at most MaxCalls construction calls, so at most that
\* many nodes are ever allocated besides the caller's first polygon.
MaxCalls == 5
\* The cleanup caller is meant to destroy once; a second call is misuse.
MaxDestroys == 2

\* ------------------------------------------------------------- the heap
NULL == 0
PolygonIds == 1..(MaxCalls + 1)
LoopIds == 1..MaxCalls
CoordIds == 1..MaxCalls

\* GeoCoord values (lat, lon); distinct values let the reading order show.
Vertices == {<<0, 0>>, <<1, 0>>}
NoVertex == <<0, 0>>

\* The first polygon of the chain is allocated by the caller.
HeadPolygon == 1

\* Memory that was never handed out by the allocator.
UnallocList == [st |-> "unalloc", first |-> NULL, last |-> NULL, next |-> NULL]
UnallocCoord == [st |-> "unalloc", vertex |-> NoVertex, next |-> NULL]

\* calloc(1, sizeof(LinkedGeoPolygon)) / calloc(1, sizeof(LinkedGeoLoop)):
\* a live block with every field zero.
ZeroList == [st |-> "live", first |-> NULL, last |-> NULL, next |-> NULL]

Min(S) == CHOOSE x \in S : \A y \in S : x <= y

\* Addresses of a pool the allocator can still hand out.
FreeIds(m) == {i \in DOMAIN m : m[i].st = "unalloc"}

\* The allocator: the address of a new block, or NULL when it fails.
alloc(m, ok) == IF ok /\ FreeIds(m) # {} THEN Min(FreeIds(m)) ELSE NULL

\* What a function call produces: the heap it leaves, its return value and
\* how it ended ("ok", or the assertion that aborted the program).
Return(h, ret) == [heap |-> h, ret |-> ret, out |-> "ok"]
Abort(h, why) == [heap |-> h, ret |-> NULL, out |-> why]

VARIABLES
    heap,       \* [polygon, loop, coord]: address -> node
    halted,     \* "no", or the assertion that aborted the program
    lastOp,     \* the call that produced this state
    polyCalls,  \* the successful addNewLinkedPolygon calls, in call order
    loopCalls,  \* per polygon: the loops returned by its attach calls
    coordCalls, \* per loop: the addLinkedCoord calls made on it
    calls,      \* number of construction calls made
    destroys,   \* number of destroyLinkedPolygon calls made
    trace       \* memory events (read / free of a node) of the destroy calls

vars == <<heap, halted, lastOp, polyCalls, loopCalls, coordCalls, calls, destroys, trace>>

\* --------------------------------------------------- construction (pure)
\* Mutant: the assertion on polygon->next is missing.
addNewLinkedPolygon_noCheck(h, polygon, ok) ==
    LET next == alloc(h.polygon, ok) IN
    IF next = NULL
    THEN Abort(h, "assert_alloc")
    ELSE LET h1 == [h EXCEPT !.polygon[next] = ZeroList] IN
         Return([h1 EXCEPT !.polygon[polygon].next = next], next)

\* Mutant: the new polygon is never linked (polygon->next = next is missing).
addNewLinkedPolygon_noLink(h, polygon, ok) ==
    IF h.polygon[polygon].next # NULL
    THEN Abort(h, "assert_polygon_next")
    ELSE LET next == alloc(h.polygon, ok) IN
         IF next = NULL
         THEN Abort(h, "assert_alloc")
         ELSE Return([h EXCEPT !.polygon[next] = ZeroList], next)

\* LinkedGeoPolygon* addNewLinkedPolygon(LinkedGeoPolygon* polygon)
addNewLinkedPolygon(h, polygon, ok) ==
    IF h.polygon[polygon].next # NULL
    THEN Abort(h, "assert_polygon_next")
    ELSE LET next == alloc(h.polygon, ok) IN
         IF next = NULL
         THEN Abort(h, "assert_alloc")
         ELSE LET h1 == [h EXCEPT !.polygon[next] = ZeroList] IN
              Return([h1 EXCEPT !.polygon[polygon].next = next], next)

\* Mutant: the first loop is recorded as last but not as first.
addLinkedLoop_noFirst(h, polygon, loop) ==
    LET last == h.polygon[polygon].last IN
    IF last = NULL
    THEN IF h.polygon[polygon].first # NULL
         THEN Abort(h, "assert_first")
         ELSE Return([h EXCEPT !.polygon[polygon].last = loop], loop)
    ELSE LET h1 == [h EXCEPT !.loop[last].next = loop] IN
         Return([h1 EXCEPT !.polygon[polygon].last = loop], loop)

\* Mutant: the else is missing, so every attached loop also becomes first.
addLinkedLoop_noElse(h, polygon, loop) ==
    LET last == h.polygon[polygon].last
        h1 == [h EXCEPT !.polygon[polygon].first = loop]
        h2 == IF last = NULL THEN h1 ELSE [h1 EXCEPT !.loop[last].next = loop]
    IN  Return([h2 EXCEPT !.polygon[polygon].last = loop], loop)

\* Mutant: polygon->last = loop is only done for the first loop.
addLinkedLoop_lastStale(h, polygon, loop) ==
    LET last == h.polygon[polygon].last IN
    IF last = NULL
    THEN IF h.polygon[polygon].first # NULL
         THEN Abort(h, "assert_first")
         ELSE Return([h EXCEPT !.polygon[polygon].first = loop,
                               !.polygon[polygon].last = loop], loop)
    ELSE Return([h EXCEPT !.loop[last].next = loop], loop)

\* Mutant: the attached loop is zeroed like a newly allocated one.
addLinkedLoop_zeroesLoop(h, polygon, loop) ==
    LET last == h.polygon[polygon].last
        h0 == [h EXCEPT !.loop[loop] = ZeroList]
    IN  IF last = NULL
        THEN IF h0.polygon[polygon].first # NULL
             THEN Abort(h0, "assert_first")
             ELSE Return([h0 EXCEPT !.polygon[polygon].first = loop,
                                    !.polygon[polygon].last = loop], loop)
        ELSE LET h1 == [h0 EXCEPT !.loop[last].next = loop] IN
             Return([h1 EXCEPT !.polygon[polygon].last = loop], loop)

\* LinkedGeoLoop* addLinkedLoop(LinkedGeoPolygon* polygon, LinkedGeoLoop* loop)
addLinkedLoop(h, polygon, loop) ==
    LET last == h.polygon[polygon].last IN
    IF last = NULL
    THEN IF h.polygon[polygon].first # NULL
         THEN Abort(h, "assert_first")
         ELSE Return([h EXCEPT !.polygon[polygon].first = loop,
                               !.polygon[polygon].last = loop], loop)
    ELSE LET h1 == [h EXCEPT !.loop[last].next = loop] IN
         Return([h1 EXCEPT !.polygon[polygon].last = loop], loop)

\* Mutant: malloc instead of calloc; the new loop's next is whatever the
\* block held (here its own address).
addNewLinkedLoop_malloc(h, polygon, ok) ==
    LET loop == alloc(h.loop, ok) IN
    IF loop = NULL
    THEN Abort(h, "assert_alloc")
    ELSE addLinkedLoop([h EXCEPT !.loop[loop] = [ZeroList EXCEPT !.next = loop]],
                       polygon, loop)

\* Mutant: the allocation is not checked; a NULL loop is attached.
addNewLinkedLoop_noCheck(h, polygon, ok) ==
    LET loop == alloc(h.loop, ok) IN
    addLinkedLoop(IF loop = NULL THEN h ELSE [h EXCEPT !.loop[loop] = ZeroList],
                  polygon, loop)

\* LinkedGeoLoop* addNewLinkedLoop(LinkedGeoPolygon* polygon)
addNewLinkedLoop(h, polygon, ok) ==
    LET loop == alloc(h.loop, ok) IN
    IF loop = NULL
    THEN Abort(h, "assert_alloc")
    ELSE addLinkedLoop([h EXCEPT !.loop[loop] = ZeroList], polygon, loop)

\* Mutant: the new coordinate's next closes the ring on the first coordinate.
addLinkedCoord_ring(h, loop, vertex, ok) ==
    LET coord == alloc(h.coord, ok) IN
    IF coord = NULL
    THEN Abort(h, "assert_alloc")
    ELSE LET last == h.loop[loop].last
             h1 == [h EXCEPT !.coord[coord] =
                        [st |-> "live", vertex |-> vertex,
                         next |-> IF last = NULL THEN coord ELSE h.loop[loop].first]]
         IN  IF last = NULL
             THEN IF h1.loop[loop].first # NULL
                  THEN Abort(h1, "assert_first")
                  ELSE Return([h1 EXCEPT !.loop[loop].first = coord,
                                         !.loop[loop].last = coord], coord)
             ELSE LET h2 == [h1 EXCEPT !.coord[last].next = coord] IN
                  Return([h2 EXCEPT !.loop[loop].last = coord], coord)

\* Mutant: assert(loop->first == NULL) is missing.
addLinkedCoord_noAssert(h, loop, vertex, ok) ==
    LET coord == alloc(h.coord, ok) IN
    IF coord = NULL
    THEN Abort(h, "assert_alloc")
    ELSE LET h1 == [h EXCEPT !.coord[coord] =
                        [st |-> "live", vertex |-> vertex, next |-> NULL]]
             last == h1.loop[loop].last
         IN  IF last = NULL
             THEN Return([h1 EXCEPT !.loop[loop].first = coord,
                                    !.loop[loop].last = coord], coord)
             ELSE LET h2 == [h1 EXCEPT !.coord[last].next = coord] IN
                  Return([h2 EXCEPT !.loop[loop].last = coord], coord)

\* Mutant: loop->last = coord is only done for the first coordinate.
addLinkedCoord_lastStale(h, loop, vertex, ok) ==
    LET coord == alloc(h.coord, ok) IN
    IF coord = NULL
    THEN Abort(h, "assert_alloc")
    ELSE LET h1 == [h EXCEPT !.coord[coord] =
                        [st |-> "live", vertex |-> vertex, next |-> NULL]]
             last == h1.loop[loop].last
         IN  IF last = NULL
             THEN Return([h1 EXCEPT !.loop[loop].first = coord,
                                    !.loop[loop].last = coord], coord)
             ELSE Return([h1 EXCEPT !.coord[last].next = coord], coord)

\* Mutant: the coordinate is inserted at the head of the chain.
addLinkedCoord_prepend(h, loop, vertex, ok) ==
    LET coord == alloc(h.coord, ok) IN
    IF coord = NULL
    THEN Abort(h, "assert_alloc")
    ELSE LET h1 == [h EXCEPT !.coord[coord] =
                        [st |-> "live", vertex |-> vertex,
                         next |-> h.loop[loop].first]]
         IN  IF h1.loop[loop].last = NULL
             THEN Return([h1 EXCEPT !.loop[loop].first = coord,
                                    !.loop[loop].last = coord], coord)
             ELSE Return([h1 EXCEPT !.loop[loop].first = coord], coord)

\* LinkedGeoCoord* addLinkedCoord(LinkedGeoLoop* loop, const GeoCoord* vertex)
addLinkedCoord(h, loop, vertex, ok) ==
    LET coord == alloc(h.coord, ok) IN
    IF coord = NULL
    THEN Abort(h, "assert_alloc")
    ELSE LET h1 == [h EXCEPT !.coord[coord] =
                        [st |-> "live", vertex |-> vertex, next |-> NULL]]
             last == h1.loop[loop].last
         IN  IF last = NULL
             THEN IF h1.loop[loop].first # NULL
                  THEN Abort(h1, "assert_first")
                  ELSE Return([h1 EXCEPT !.loop[loop].first = coord,
                                         !.loop[loop].last = coord], coord)
             ELSE LET h2 == [h1 EXCEPT !.coord[last].next = coord] IN
                  Return([h2 EXCEPT !.loop[loop].last = coord], coord)

\* ------------------------------------------------------- counting (pure)
\* The result of a while loop that never reaches NULL.
Diverges == -1

RECURSIVE countPolygonsFrom(_, _, _)
countPolygonsFrom(h, polygon, count) ==
    IF polygon = NULL THEN count
    ELSE IF count >= Cardinality(PolygonIds) THEN Diverges
    ELSE countPolygonsFrom(h, h.polygon[polygon].next, count + 1)

\* int countLinkedPolygons(LinkedGeoPolygon* polygon)
countLinkedPolygons(h, polygon) == countPolygonsFrom(h, polygon, 0)

RECURSIVE countLoopsFrom(_, _, _)
countLoopsFrom(h, loop, count) ==
    IF loop = NULL THEN count
    ELSE IF count >= Cardinality(LoopIds) THEN Diverges
    ELSE countLoopsFrom(h, h.loop[loop].next, count + 1)

\* Mutant: the counter starts at 1.
countLinkedLoops_fromOne(h, polygon) ==
    countLoopsFrom(h, h.polygon[polygon].first, 1)

\* int countLinkedLoops(LinkedGeoPolygon* polygon)
countLinkedLoops(h, polygon) == countLoopsFrom(h, h.polygon[polygon].first, 0)

RECURSIVE countCoordsFrom(_, _, _)
countCoordsFrom(h, coord, count) ==
    IF coord = NULL THEN count
    ELSE IF count >= Cardinality(CoordIds) THEN Diverges
    ELSE countCoordsFrom(h, h.coord[coord].next, count + 1)

\* int countLinkedCoords(LinkedGeoLoop* loop)
countLinkedCoords(h, loop) == countCoordsFrom(h, h.loop[loop].first, 0)

\* The three counts as calls: they write nothing, so the heap they leave is
\* the heap they were given.
callCountLinkedPolygons(h, polygon) == Return(h, countLinkedPolygons(h, polygon))
callCountLinkedLoops(h, polygon) == Return(h, countLinkedLoops(h, polygon))
callCountLinkedCoords(h, loop) == Return(h, countLinkedCoords(h, loop))

\* ----------------------------------------------------- destruction (pure)
\* A destroy in progress: the heap, the memory events so far, and whether
\* the run has touched released memory (undefined behaviour).
Event(what, kind, id) == <<what, kind, id>>
\* Touching released memory is undefined behaviour, and what happens is
\* decided access by access: the allocator or the hardware may end the run
\* at any such access (a detected double free, a fault), and until then
\* released memory is read as what was last stored in it.  survive is the
\* number of accesses to released memory the run gets through: it ends at
\* access number survive + 1, which is still logged.  hits counts the
\* accesses to released memory so far.  Nothing is claimed of what the
\* program does after a call that made such an access.
Run(h, survive) == [heap |-> h, log |-> <<>>, hits |-> 0, survive |-> survive]
Touch(d, kind, id) == [d EXCEPT !.log = Append(@, Event("read", kind, id))]
Undefined(d, kind, id, what) ==
    [d EXCEPT !.log = Append(@, Event(what, kind, id)), !.hits = @ + 1]
Stopped(d) == d.hits > d.survive

\* No call makes more accesses than this, so a run that survives as many
\* is never ended.
MaxAccesses ==
    3 * (Cardinality(PolygonIds) + Cardinality(LoopIds) + Cardinality(CoordIds))

\* A read of a field of the node.
read(d, kind, id) ==
    IF d.heap[kind][id].st # "live"
    THEN Undefined(d, kind, id, "read")
    ELSE Touch(d, kind, id)

\* free(ptr)
free(d, kind, id) ==
    IF d.heap[kind][id].st # "live"
    THEN Undefined(d, kind, id, "free")
    ELSE [d EXCEPT !.heap[kind][id].st = "freed",
                   !.log = Append(@, Event("free", kind, id))]

\* The for loop of destroyLinkedGeoLoop.
RECURSIVE destroyCoordsFrom(_, _)
destroyCoordsFrom(d, currentCoord) ==
    IF Stopped(d) \/ currentCoord = NULL THEN d
    ELSE LET d1 == read(d, "coord", currentCoord)
             nextCoord == d.heap.coord[currentCoord].next
         IN  IF Stopped(d1) THEN d1
             ELSE destroyCoordsFrom(free(d1, "coord", currentCoord), nextCoord)

\* Mutant: the loop entity is released along with its coordinates.
destroyLinkedGeoLoop_freesLoop(d, loop) ==
    LET d1 == read(d, "loop", loop) IN
    IF Stopped(d1) THEN d1
    ELSE LET d2 == destroyCoordsFrom(d1, d.heap.loop[loop].first) IN
         IF Stopped(d2) THEN d2 ELSE free(d2, "loop", loop)

\* void destroyLinkedGeoLoop(LinkedGeoLoop* loop)
destroyLinkedGeoLoop(d, loop) ==
    LET d1 == read(d, "loop", loop) IN
    IF Stopped(d1) THEN d1
    ELSE destroyCoordsFrom(d1, d.heap.loop[loop].first)

\* destroyLinkedGeoLoop called on its own, on heap h.
callDestroyLinkedGeoLoop(h, loop, survive) ==
    destroyLinkedGeoLoop(Run(h, survive), loop)

\* Mutant: the loop is released before its next is read.
RECURSIVE destroyLoopsFrom_freeFirst(_, _)
destroyLoopsFrom_freeFirst(d, currentLoop) ==
    IF Stopped(d) \/ currentLoop = NULL THEN d
    ELSE LET d1 == destroyLinkedGeoLoop(d, currentLoop) IN
         IF Stopped(d1) THEN d1
         ELSE LET d2 == free(d1, "loop", currentLoop) IN
              IF Stopped(d2) THEN d2
              ELSE LET d3 == read(d2, "loop", currentLoop)
                       nextLoop == d2.heap.loop[currentLoop].next
                   IN  IF Stopped(d3) THEN d3
                       ELSE destroyLoopsFrom_freeFirst(d3, nextLoop)

\* The inner for loop of destroyLinkedPolygon.
RECURSIVE destroyLoopsFrom(_, _)
destroyLoopsFrom(d, currentLoop) ==
    IF Stopped(d) \/ currentLoop = NULL THEN d
    ELSE LET d1 == destroyLinkedGeoLoop(d, currentLoop) IN
         IF Stopped(d1) THEN d1
         ELSE LET d2 == read(d1, "loop", currentLoop)
                  nextLoop == d1.heap.loop[currentLoop].next
              IN  IF Stopped(d2) THEN d2
                  ELSE destroyLoopsFrom(free(d2, "loop", currentLoop), nextLoop)

\* Mutant: the skip flag is never cleared, so no polygon is released.
RECURSIVE destroyPolygonsFrom_skipKept(_, _, _)
destroyPolygonsFrom_skipKept(d, currentPolygon, skip) ==
    IF Stopped(d) \/ currentPolygon = NULL THEN d
    ELSE LET d1 == read(d, "polygon", currentPolygon) IN
         IF Stopped(d1) THEN d1
         ELSE LET d2 == destroyLoopsFrom(d1, d.heap.polygon[currentPolygon].first) IN
              IF Stopped(d2) THEN d2
              ELSE LET d3 == read(d2, "polygon", currentPolygon)
                       nextPolygon == d2.heap.polygon[currentPolygon].next
                   IN  IF Stopped(d3) THEN d3
                       ELSE IF skip
                       THEN destroyPolygonsFrom_skipKept(d3, nextPolygon, skip)
                       ELSE destroyPolygonsFrom_skipKept(
                                free(d3, "polygon", currentPolygon),
                                nextPolygon, skip)

\* Mutant: a polygon's first and last are cleared once its loops are released.
RECURSIVE destroyPolygonsFrom_clearsFirst(_, _, _)
destroyPolygonsFrom_clearsFirst(d, currentPolygon, skip) ==
    IF Stopped(d) \/ currentPolygon = NULL THEN d
    ELSE LET d1 == read(d, "polygon", currentPolygon) IN
         IF Stopped(d1) THEN d1
         ELSE LET d2 == destroyLoopsFrom(d1, d.heap.polygon[currentPolygon].first) IN
              IF Stopped(d2) THEN d2
              ELSE LET d3 == read([d2 EXCEPT !.heap.polygon[currentPolygon].first = NULL,
                                             !.heap.polygon[currentPolygon].last = NULL],
                                  "polygon", currentPolygon)
                       nextPolygon == d2.heap.polygon[currentPolygon].next
                   IN  IF Stopped(d3) THEN d3
                       ELSE IF skip
                       THEN destroyPolygonsFrom_clearsFirst(d3, nextPolygon, FALSE)
                       ELSE destroyPolygonsFrom_clearsFirst(
                                free(d3, "polygon", currentPolygon),
                                nextPolygon, FALSE)

\* The outer for loop of destroyLinkedPolygon.
RECURSIVE destroyPolygonsFrom(_, _, _)
destroyPolygonsFrom(d, currentPolygon, skip) ==
    IF Stopped(d) \/ currentPolygon = NULL THEN d
    ELSE LET d1 == read(d, "polygon", currentPolygon) IN
         IF Stopped(d1) THEN d1
         ELSE LET d2 == destroyLoopsFrom(d1, d.heap.polygon[currentPolygon].first) IN
              IF Stopped(d2) THEN d2
              ELSE LET d3 == read(d2, "polygon", currentPolygon)
                       nextPolygon == d2.heap.polygon[currentPolygon].next
                   IN  IF Stopped(d3) THEN d3
                       ELSE IF skip
                       THEN destroyPolygonsFrom(d3, nextPolygon, FALSE)
                       ELSE destroyPolygonsFrom(
                                free(d3, "polygon", currentPolygon),
                                nextPolygon, FALSE)

\* Mutant: the input polygon is reset to the empty state before returning.
destroyLinkedPolygon_resetHead(h, polygon, survive) ==
    LET d == destroyPolygonsFrom(Run(h, survive), polygon, TRUE)
    IN  [d EXCEPT !.heap.polygon[polygon].first = NULL,
                  !.heap.polygon[polygon].last = NULL,
                  !.heap.polygon[polygon].next = NULL]

\* void destroyLinkedPolygon(LinkedGeoPolygon* polygon)
destroyLinkedPolygon(h, polygon, survive) ==
    destroyPolygonsFrom(Run(h, survive), polygon, TRUE)

\* ------------------------------------------------------------ the program
\* A call: the function, its arguments, whether the allocator had memory for
\* it (mem), its return value and how it ended.
NoOp == [op |-> "init", polygon |-> NULL, loop |-> NULL, vertex |-> NoVertex,
         mem |-> TRUE, ret |-> NULL, out |-> "ok"]

Call(op, polygon, loop, vertex, mem, ret, out) ==
    [op |-> op, polygon |-> polygon, loop |-> loop, vertex |-> vertex,
     mem |-> mem, ret |-> ret, out |-> out]

\* The caller has allocated and zeroed the first polygon; nothing else exists.
Init ==
    /\ heap = [polygon |-> [p \in PolygonIds |->
                               IF p = HeadPolygon THEN ZeroList ELSE UnallocList],
               loop |-> [l \in LoopIds |-> UnallocList],
               coord |-> [c \in CoordIds |-> UnallocCoord]]
    /\ halted = "no"
    /\ lastOp = NoOp
    /\ polyCalls = <<>>
    /\ loopCalls = [p \in PolygonIds |-> <<>>]
    /\ coordCalls = [l \in LoopIds |-> <<>>]
    /\ calls = 0
    /\ destroys = 0
    /\ trace = <<>>

LivePolygons == {p \in PolygonIds : heap.polygon[p].st = "live"}
LiveLoops == {l \in LoopIds : heap.loop[l].st = "live"}

\* The program runs until an assertion aborts it; the producer builds the
\* structure before the cleanup caller destroys it.
Running == halted = "no"
Building == Running /\ destroys = 0

\* A loop entity no list refers to and whose own next is unset.
FreshLoop(l) ==
    /\ heap.loop[l].st = "live"
    /\ heap.loop[l].next = NULL
    /\ \A p \in PolygonIds : heap.polygon[p].first # l /\ heap.polygon[p].last # l
    /\ \A k \in LoopIds : heap.loop[k].next # l
FreshLoops == {l \in LoopIds : FreshLoop(l)}

Outcome(r) == IF r.out = "ok" THEN "no" ELSE r.out

\* create-next-polygon
AddNewLinkedPolygon(polygon, ok) ==
    /\ Building
    /\ calls < MaxCalls
    /\ LET r == addNewLinkedPolygon(heap, polygon, ok) IN
        /\ heap' = r.heap
        /\ halted' = Outcome(r)
        /\ lastOp' = Call("addNewLinkedPolygon", polygon, NULL, NoVertex, ok,
                          r.ret, r.out)
        /\ polyCalls' = IF r.out = "ok"
                        THEN Append(polyCalls, [arg |-> polygon, ret |-> r.ret])
                        ELSE polyCalls
    /\ calls' = calls + 1
    /\ UNCHANGED <<loopCalls, coordCalls, destroys, trace>>

\* create-or-attach-loop, allocate-new form
AddNewLinkedLoop(polygon, ok) ==
    /\ Building
    /\ calls < MaxCalls
    /\ LET r == addNewLinkedLoop(heap, polygon, ok) IN
        /\ heap' = r.heap
        /\ halted' = Outcome(r)
        /\ lastOp' = Call("addNewLinkedLoop", polygon, NULL, NoVertex, ok,
                          r.ret, r.out)
        /\ loopCalls' = IF r.out = "ok"
                        THEN [loopCalls EXCEPT ![polygon] = Append(@, r.ret)]
                        ELSE loopCalls
    /\ calls' = calls + 1
    /\ UNCHANGED <<polyCalls, coordCalls, destroys, trace>>

\* The caller of the attach-existing form allocates the loop entity itself.
CallerAllocLoop ==
    /\ Building
    /\ calls < MaxCalls
    /\ LET loop == alloc(heap.loop, TRUE) IN
        /\ heap' = [heap EXCEPT !.loop[loop] = ZeroList]
        /\ lastOp' = Call("callerAllocLoop", NULL, NULL, NoVertex, TRUE, loop, "ok")
    /\ calls' = calls + 1
    /\ UNCHANGED <<halted, polyCalls, loopCalls, coordCalls, destroys, trace>>

\* create-or-attach-loop, attach-existing form
AddLinkedLoop(polygon, loop) ==
    /\ Building
    /\ calls < MaxCalls
    /\ LET r == addLinkedLoop(heap, polygon, loop) IN
        /\ heap' = r.heap
        /\ halted' = Outcome(r)
        /\ lastOp' = Call("addLinkedLoop", polygon, loop, NoVertex, TRUE,
                          r.ret, r.out)
        /\ loopCalls' = IF r.out = "ok"
                        THEN [loopCalls EXCEPT ![polygon] = Append(@, r.ret)]
                        ELSE loopCalls
    /\ calls' = calls + 1
    /\ UNCHANGED <<polyCalls, coordCalls, destroys, trace>>

\* append-coordinate
AddLinkedCoord(loop, vertex, ok) ==
    /\ Building
    /\ calls < MaxCalls
    /\ LET r == addLinkedCoord(heap, loop, vertex, ok) IN
        /\ heap' = r.heap
        /\ halted' = Outcome(r)
        /\ lastOp' = Call("addLinkedCoord", NULL, loop, vertex, ok, r.ret, r.out)
        /\ coordCalls' = IF r.out = "ok"
                         THEN [coordCalls EXCEPT ![loop] =
                                  Append(@, [vertex |-> vertex, ret |-> r.ret])]
                         ELSE coordCalls
    /\ calls' = calls + 1
    /\ UNCHANGED <<polyCalls, loopCalls, destroys, trace>>

\* count-polygons, count-loops, count-coordinates
CountLinkedPolygons(polygon) ==
    /\ Building
    /\ LET r == callCountLinkedPolygons(heap, polygon) IN
        /\ heap' = r.heap
        /\ lastOp' = Call("countLinkedPolygons", polygon, NULL, NoVertex, TRUE,
                          r.ret, r.out)
    /\ UNCHANGED <<halted, polyCalls, loopCalls, coordCalls, calls, destroys, trace>>

CountLinkedLoops(polygon) ==
    /\ Building
    /\ LET r == callCountLinkedLoops(heap, polygon) IN
        /\ heap' = r.heap
        /\ lastOp' = Call("countLinkedLoops", polygon, NULL, NoVertex, TRUE,
                          r.ret, r.out)
    /\ UNCHANGED <<halted, polyCalls, loopCalls, coordCalls, calls, destroys, trace>>

CountLinkedCoords(loop) ==
    /\ Building
    /\ LET r == callCountLinkedCoords(heap, loop) IN
        /\ heap' = r.heap
        /\ lastOp' = Call("countLinkedCoords", NULL, loop, NoVertex, TRUE,
                          r.ret, r.out)
    /\ UNCHANGED <<halted, polyCalls, loopCalls, coordCalls, calls, destroys, trace>>

\* destroy-all, called by the cleanup caller on the first polygon
DestroyLinkedPolygon ==
    /\ Running
    /\ destroys < MaxDestroys
    /\ \E survive \in 0..destroyLinkedPolygon(heap, HeadPolygon, MaxAccesses).hits :
       LET d == destroyLinkedPolygon(heap, HeadPolygon, survive) IN
        /\ heap' = d.heap
        /\ halted' = IF d.hits > 0 THEN "undefined" ELSE "no"
        /\ trace' = trace \o d.log
        /\ lastOp' = Call("destroyLinkedPolygon", HeadPolygon, NULL, NoVertex, TRUE, NULL,
                          IF Stopped(d) THEN "killed"
                          ELSE IF d.hits > 0 THEN "undefined" ELSE "ok")
    /\ destroys' = destroys + 1
    /\ UNCHANGED <<polyCalls, loopCalls, coordCalls, calls>>

\* One producer following the contract (fresh loops only), then cleanup.
Next ==
    \/ \E polygon \in LivePolygons, ok \in BOOLEAN : AddNewLinkedPolygon(polygon, ok)
    \/ \E polygon \in LivePolygons, ok \in BOOLEAN : AddNewLinkedLoop(polygon, ok)
    \/ CallerAllocLoop
    \/ \E polygon \in LivePolygons, loop \in FreshLoops : AddLinkedLoop(polygon, loop)
    \/ \E loop \in LiveLoops, vertex \in Vertices, ok \in BOOLEAN :
           AddLinkedCoord(loop, vertex, ok)
    \/ \E polygon \in LivePolygons \cup {NULL} : CountLinkedPolygons(polygon)
    \/ \E polygon \in LivePolygons : CountLinkedLoops(polygon)
    \/ \E loop \in LiveLoops : CountLinkedCoords(loop)
    \/ DestroyLinkedPolygon

Spec == Init /\ [][Next]_vars

\* A producer that may pass any loop entity it holds to the attach-existing
\* form, fresh or not.
NextAny ==
    \/ \E polygon \in LivePolygons, ok \in BOOLEAN : AddNewLinkedPolygon(polygon, ok)
    \/ \E polygon \in LivePolygons, ok \in BOOLEAN : AddNewLinkedLoop(polygon, ok)
    \/ CallerAllocLoop
    \/ \E polygon \in LivePolygons, loop \in LiveLoops : AddLinkedLoop(polygon, loop)
    \/ \E loop \in LiveLoops, vertex \in Vertices, ok \in BOOLEAN :
           AddLinkedCoord(loop, vertex, ok)

SpecAny == Init /\ [][NextAny]_vars

\* first and last are plain fields of the head structs: a caller can clear
\* one of them and so break the emptiness invariant of a head.
CallerClearsField(kind, id, field) ==
    /\ Building
    /\ calls < MaxCalls
    /\ heap[kind][id].st = "live"
    /\ heap[kind][id][field] # NULL
    /\ heap' = [heap EXCEPT ![kind][id][field] = NULL]
    /\ lastOp' = Call("callerClearsField",
                      IF kind = "polygon" THEN id ELSE NULL,
                      IF kind = "loop" THEN id ELSE NULL,
                      NoVertex, TRUE, NULL, "ok")
    /\ calls' = calls + 1
    /\ UNCHANGED <<halted, polyCalls, loopCalls, coordCalls, destroys, trace>>

\* A producer whose heads may have been damaged by the caller.
NextMismatch ==
    \/ \E polygon \in LivePolygons, ok \in BOOLEAN : AddNewLinkedPolygon(polygon, ok)
    \/ \E polygon \in LivePolygons, ok \in BOOLEAN : AddNewLinkedLoop(polygon, ok)
    \/ CallerAllocLoop
    \/ \E polygon \in LivePolygons, loop \in FreshLoops : AddLinkedLoop(polygon, loop)
    \/ \E loop \in LiveLoops, vertex \in Vertices, ok \in BOOLEAN :
           AddLinkedCoord(loop, vertex, ok)
    \/ \E polygon \in LivePolygons, field \in {"first", "last"} :
           CallerClearsField("polygon", polygon, field)
    \/ \E loop \in LiveLoops, field \in {"first", "last"} :
           CallerClearsField("loop", loop, field)

SpecMismatch == Init /\ [][NextMismatch]_vars

\* The caller destroys the coordinates of one loop.
DestroyLinkedGeoLoop(loop) ==
    /\ Building
    /\ \E survive \in 0..callDestroyLinkedGeoLoop(heap, loop, MaxAccesses).hits :
       LET d == callDestroyLinkedGeoLoop(heap, loop, survive) IN
        /\ heap' = d.heap
        /\ halted' = IF d.hits > 0 THEN "undefined" ELSE "no"
        /\ trace' = trace \o d.log
        /\ lastOp' = Call("destroyLinkedGeoLoop", NULL, loop, NoVertex, TRUE, NULL,
                          IF Stopped(d) THEN "killed"
                          ELSE IF d.hits > 0 THEN "undefined" ELSE "ok")
    /\ destroys' = destroys + 1
    /\ UNCHANGED <<polyCalls, loopCalls, coordCalls, calls>>

\* A producer that ends with either destructor.
NextLoop ==
    \/ \E polygon \in LivePolygons, ok \in BOOLEAN : AddNewLinkedPolygon(polygon, ok)
    \/ \E polygon \in LivePolygons, ok \in BOOLEAN : AddNewLinkedLoop(polygon, ok)
    \/ CallerAllocLoop
    \/ \E polygon \in LivePolygons, loop \in FreshLoops : AddLinkedLoop(polygon, loop)
    \/ \E loop \in LiveLoops, vertex \in Vertices, ok \in BOOLEAN :
           AddLinkedCoord(loop, vertex, ok)
    \/ \E loop \in LiveLoops : DestroyLinkedGeoLoop(loop)
    \/ DestroyLinkedPolygon

SpecLoop == Init /\ [][NextLoop]_vars

\* ------------------------------------------------- reading the structure
\* The consumer's forward read: the nodes met following next from `node`.
\* The fuel stops the read of a chain that never reaches NULL.
RECURSIVE ChainFrom(_, _, _)
ChainFrom(m, node, fuel) ==
    IF node = NULL \/ fuel = 0 THEN <<>>
    ELSE <<node>> \o ChainFrom(m, m[node].next, fuel - 1)

PolygonChain(polygon) ==
    ChainFrom(heap.polygon, polygon, Cardinality(PolygonIds) + 1)
LoopChain(polygon) ==
    ChainFrom(heap.loop, heap.polygon[polygon].first, Cardinality(LoopIds) + 1)
CoordChain(loop) ==
    ChainFrom(heap.coord, heap.loop[loop].first, Cardinality(CoordIds) + 1)

Range(seq) == {seq[i] : i \in DOMAIN seq}
PointsOf(loop) == [i \in DOMAIN CoordChain(loop) |-> heap.coord[CoordChain(loop)[i]].vertex]
PointsAppended(loop) == [i \in DOMAIN coordCalls[loop] |-> coordCalls[loop][i].vertex]
NodesAppended(loop) == [i \in DOMAIN coordCalls[loop] |-> coordCalls[loop][i].ret]
PolygonsCreated == [i \in DOMAIN polyCalls |-> polyCalls[i].ret]

\* ------------------------------------------------------------------ C1
\* C1: after N addLinkedCoord calls on a fresh loop, countLinkedCoords returns
\* N and the forward read from loop.first yields the N appended point values
\* in call order.
C1_CoordCountAndOrder ==
    destroys = 0 =>
        \A loop \in LiveLoops :
            /\ countLinkedCoords(heap, loop) = Len(coordCalls[loop])
            /\ PointsOf(loop) = PointsAppended(loop)

C1_Witness ==
    \E loop \in LiveLoops :
        /\ Len(coordCalls[loop]) = 3
        /\ PointsAppended(loop) = << <<1, 0>>, <<0, 0>>, <<1, 0>> >>
        /\ countLinkedCoords(heap, loop) = 3

\* ------------------------------------------------------------------ C2
\* C2: after M addNewLinkedLoop / addLinkedLoop(fresh loop) calls on a fresh
\* polygon, countLinkedLoops returns M and the forward read from
\* polygon.first yields the M loops in call order.
C2_LoopCountAndOrder ==
    destroys = 0 =>
        \A polygon \in LivePolygons :
            /\ countLinkedLoops(heap, polygon) = Len(loopCalls[polygon])
            /\ LoopChain(polygon) = loopCalls[polygon]

C2_Witness ==
    /\ lastOp.op = "addLinkedLoop"
    /\ lastOp.out = "ok"
    /\ Len(loopCalls[lastOp.polygon]) = 3
    /\ countLinkedLoops(heap, lastOp.polygon) = 3
    /\ \E i \in 1..3 : loopCalls[lastOp.polygon][i] < loopCalls[lastOp.polygon][1]

\* ------------------------------------------------------------------ C3
\* C3: after K addNewLinkedPolygon calls starting from the caller's polygon,
\* each made on the polygon the previous call returned, countLinkedPolygons
\* of the first polygon returns K + 1 and no call fails the next == NULL
\* assertion.
ChainedCalls ==
    \A i \in DOMAIN polyCalls :
        polyCalls[i].arg = IF i = 1 THEN HeadPolygon ELSE polyCalls[i - 1].ret
LastReturned ==
    IF polyCalls = <<>> THEN HeadPolygon ELSE polyCalls[Len(polyCalls)].ret

C3_PolygonCount ==
    (destroys = 0 /\ ChainedCalls) =>
        /\ countLinkedPolygons(heap, HeadPolygon) = Len(polyCalls) + 1
        /\ (lastOp.op = "addNewLinkedPolygon" /\ lastOp.out = "assert_polygon_next")
               => lastOp.polygon # LastReturned

C3_Witness ==
    /\ Len(polyCalls) = 3
    /\ ChainedCalls
    /\ countLinkedPolygons(heap, HeadPolygon) = 4
    /\ destroys = 0

\* ------------------------------------------------------------------ C4
\* C4: under any interleaving of the construction calls of one producer on the
\* polygons and loops of one structure, each loop reads as the appends made
\* on it, each polygon's loops as the attach calls made on it, and the
\* polygon chain as the create-next-polygon calls, all in call order.
C4_InterleavedOrder ==
    destroys = 0 =>
        /\ \A loop \in LiveLoops :
               /\ CoordChain(loop) = NodesAppended(loop)
               /\ PointsOf(loop) = PointsAppended(loop)
        /\ \A polygon \in LivePolygons : LoopChain(polygon) = loopCalls[polygon]
        /\ PolygonChain(HeadPolygon) = <<HeadPolygon>> \o PolygonsCreated

\* The producer returns to the first polygon's loop after it has created the
\* second polygon, attached a loop to it and appended to that loop.
C4_Witness ==
    \E a, b \in LiveLoops :
        /\ a < b
        /\ LoopChain(HeadPolygon) = <<a>>
        /\ PolygonChain(HeadPolygon) = <<HeadPolygon, 2>>
        /\ LoopChain(2) = <<b>>
        /\ NodesAppended(b) = <<1>>
        /\ NodesAppended(a) = <<2>>
        /\ destroys = 0


\* ------------------------------------------------------------------ C5
\* What the structure headed by the first polygon owns, read from the links
\* (destroyLinkedPolygon writes none of them).
ChainPolygons == Range(PolygonChain(HeadPolygon))
OwnedPolygons == ChainPolygons \ {HeadPolygon}
OwnedLoops == UNION {Range(LoopChain(p)) : p \in ChainPolygons}
OwnedCoords == UNION {Range(CoordChain(l)) : l \in OwnedLoops}
Owned(kind) ==
    CASE kind = "polygon" -> OwnedPolygons
      [] kind = "loop" -> OwnedLoops
      [] kind = "coord" -> OwnedCoords

\* How many times the destroy calls released a node.
FreeCount(kind, id) ==
    Cardinality({i \in DOMAIN trace : trace[i] = Event("free", kind, id)})

\* C5: after destroyLinkedPolygon on the first polygon of a chain built by the
\* construction operations, the first polygon is still allocated, and every
\* other polygon of the chain, every loop of every polygon and every
\* coordinate of every loop has been released exactly once; nothing else is
\* released.
C5_DestroyReleasesOwned ==
    destroys = 1 =>
        /\ halted # "undefined"
        /\ heap.polygon[HeadPolygon].st = "live"
        /\ FreeCount("polygon", HeadPolygon) = 0
        /\ \A kind \in {"polygon", "loop", "coord"} :
               \A id \in DOMAIN heap[kind] :
                   IF id \in Owned(kind)
                   THEN heap[kind][id].st = "freed" /\ FreeCount(kind, id) = 1
                   ELSE heap[kind][id].st # "freed" /\ FreeCount(kind, id) = 0

\* Two polygons, each with a loop, and one coordinate in one of the loops:
\* the four owned nodes are released and the head is not.
C5_Witness ==
    /\ destroys = 1
    /\ Cardinality(OwnedPolygons) = 1
    /\ \A p \in ChainPolygons : Len(LoopChain(p)) >= 1
    /\ Cardinality(OwnedLoops) = 2
    /\ Cardinality(OwnedCoords) = 1
    /\ \A c \in OwnedCoords : heap.coord[c].st = "freed"
    /\ heap.polygon[HeadPolygon].st = "live"

\* ------------------------------------------------------------------ C6
\* C6: every loop head and polygon head has first == NULL exactly when
\* last == NULL; a head nothing was appended to has first == last == NULL,
\* and after exactly one append first == last == the appended node.
EmptinessOf(head, appended) ==
    /\ (head.first = NULL) <=> (head.last = NULL)
    /\ Len(appended) = 0 => (head.first = NULL /\ head.last = NULL)
    /\ Len(appended) = 1 => (head.first = appended[1] /\ head.last = appended[1])

C6_Emptiness ==
    /\ \A loop \in LiveLoops : EmptinessOf(heap.loop[loop], NodesAppended(loop))
    /\ \A polygon \in LivePolygons :
           EmptinessOf(heap.polygon[polygon], loopCalls[polygon])

\* A fresh polygon and a fresh loop beside a polygon and a loop that have
\* each had exactly one append.
C6_Witness ==
    /\ \E p, q \in LivePolygons : Len(loopCalls[p]) = 0 /\ Len(loopCalls[q]) = 1
    /\ \E a, b \in LiveLoops :
           /\ Len(coordCalls[a]) = 0
           /\ Len(coordCalls[b]) = 1
           /\ heap.loop[b].first = heap.loop[b].last
           /\ heap.loop[b].first # NULL

\* ------------------------------------------------------------------ C7
\* After the last call, the tail of the list that call appended to has no
\* successor.
LastNextNone ==
    CASE lastOp.op \in {"addNewLinkedLoop", "addLinkedLoop"} ->
             heap.loop[heap.polygon[lastOp.polygon].last].next = NULL
      [] lastOp.op = "addLinkedCoord" ->
             heap.coord[heap.loop[lastOp.loop].last].next = NULL
      [] lastOp.op = "addNewLinkedPolygon" ->
             heap.polygon[lastOp.ret].next = NULL
      [] OTHER -> TRUE

\* C7 as stated: immediately after any append operation completes, whatever
\* loop entity the attach-existing form was given, the node the affected
\* head's last refers to has next == NULL.
C7_LastNextNone_AnyLoop == lastOp.out = "ok" => LastNextNone

\* C7 (amended): after any append operation completes, the node the affected
\* head's last refers to has next == NULL, provided the loop given to the
\* attach-existing form had next == NULL and was not already the polygon's
\* last loop.
C7_LastNextNone ==
    [][(/\ lastOp'.out = "ok"
        /\ lastOp'.op = "addLinkedLoop" =>
               /\ heap.loop[lastOp'.loop].next = NULL
               /\ heap.polygon[lastOp'.polygon].last # lastOp'.loop)
       => LastNextNone']_vars

\* A loop that is the tail of one polygon (next == NULL) has been attached to
\* a second polygon that already had a loop.
C7_Witness ==
    /\ lastOp.op = "addLinkedLoop"
    /\ lastOp.out = "ok"
    /\ \E p \in LivePolygons :
           p # lastOp.polygon /\ heap.polygon[p].last = lastOp.loop
    /\ heap.polygon[lastOp.polygon].first # lastOp.loop
    /\ heap.polygon[lastOp.polygon].last = lastOp.loop
    /\ heap.loop[lastOp.loop].next = NULL

\* ------------------------------------------------------------------ C8
\* Edges into a node: next links of its siblings and first links of heads.
InPolygon(p) == {q \in PolygonIds : heap.polygon[q].next = p}
InLoop(l) ==
    {<<"next", k>> : k \in {k \in LoopIds : heap.loop[k].next = l}}
        \cup {<<"first", p>> : p \in {p \in PolygonIds : heap.polygon[p].first = l}}
InCoord(c) ==
    {<<"next", k>> : k \in {k \in CoordIds : heap.coord[k].next = c}}
        \cup {<<"first", l>> : l \in {l \in LoopIds : heap.loop[l].first = c}}

\* No node is met again when following next from it.
Acyclic(m) ==
    \A n \in DOMAIN m : n \notin Range(ChainFrom(m, m[n].next, Cardinality(DOMAIN m)))

\* C8: the polygon, loop and coordinate chains form a forest of singly-linked
\* lists: no chain has a cycle and no node has more than one incoming
\* next/first edge.
C8_Forest ==
    /\ Acyclic(heap.polygon) /\ Acyclic(heap.loop) /\ Acyclic(heap.coord)
    /\ \A p \in PolygonIds : Cardinality(InPolygon(p)) <= 1
    /\ \A l \in LoopIds : Cardinality(InLoop(l)) <= 1
    /\ \A c \in CoordIds : Cardinality(InCoord(c)) <= 1

\* Chains of two polygons, two loops and two coordinates.
C8_Witness ==
    /\ Len(PolygonChain(HeadPolygon)) = 2
    /\ \E p \in LivePolygons : Len(LoopChain(p)) = 2
    /\ \E l \in LiveLoops : Len(CoordChain(l)) = 2

\* ------------------------------------------------------------------ C9
\* C9: addNewLinkedPolygon on a polygon whose next is set fails its assertion
\* before allocating and before writing: the heap is left exactly as it was.
C9_AssertBeforeAlloc ==
    [][(/\ lastOp'.op = "addNewLinkedPolygon"
        /\ heap.polygon[lastOp'.polygon].next # NULL)
       => (/\ halted' = "assert_polygon_next"
           /\ lastOp'.ret = NULL
           /\ heap' = heap)]_vars

\* The call was made on the first of two polygons, with memory available.
C9_Witness ==
    /\ halted = "assert_polygon_next"
    /\ lastOp.op = "addNewLinkedPolygon"
    /\ lastOp.polygon = HeadPolygon
    /\ lastOp.mem
    /\ heap.polygon[HeadPolygon].next = 2
    /\ heap.polygon[3].st = "unalloc"

\* ----------------------------------------------------------------- C10
AllocatingOps == {"addNewLinkedPolygon", "addNewLinkedLoop", "addLinkedCoord"}

\* C10: when the allocation of an allocating operation fails, the operation
\* halts at its assertion, returns nothing and leaves every field of the
\* structure as it was.
C10_AllocFailureHalts ==
    [][(/\ lastOp'.op \in AllocatingOps
        /\ ~lastOp'.mem
        /\ lastOp'.op = "addNewLinkedPolygon" =>
               heap.polygon[lastOp'.polygon].next = NULL)
       => (/\ halted' = "assert_alloc"
           /\ lastOp'.out = "assert_alloc"
           /\ lastOp'.ret = NULL
           /\ heap' = heap)]_vars

\* The allocation failed while appending to a loop that already had a tail.
C10_Witness ==
    /\ halted = "assert_alloc"
    /\ lastOp.op = "addLinkedCoord"
    /\ ~lastOp.mem
    /\ Len(coordCalls[lastOp.loop]) = 2
    /\ heap.coord[heap.loop[lastOp.loop].last].next = NULL

\* ----------------------------------------------------------------- C11
CountOps == {"countLinkedPolygons", "countLinkedLoops", "countLinkedCoords"}

\* The chain a count call traverses, read in the state the call was made in.
CountedChain(call) ==
    CASE call.op = "countLinkedPolygons" -> PolygonChain(call.polygon)
      [] call.op = "countLinkedLoops" -> LoopChain(call.polygon)
      [] call.op = "countLinkedCoords" -> CoordChain(call.loop)

\* C11: the three counts change no field of any node and allocate or release
\* nothing; each returns the length of the chain it traverses, which is 0 for
\* an empty chain and for countLinkedPolygons(NULL).
C11_CountsArePure ==
    [][lastOp'.op \in CountOps =>
          /\ heap' = heap
          /\ trace' = trace
          /\ halted' = halted
          /\ lastOp'.ret = Len(CountedChain(lastOp'))
          /\ (lastOp'.op = "countLinkedPolygons" /\ lastOp'.polygon = NULL)
                 => lastOp'.ret = 0
          /\ (lastOp'.op = "countLinkedLoops"
                 /\ heap.polygon[lastOp'.polygon].first = NULL)
                 => lastOp'.ret = 0
          /\ (lastOp'.op = "countLinkedCoords"
                 /\ heap.loop[lastOp'.loop].first = NULL)
                 => lastOp'.ret = 0]_vars

\* The loops of a polygon that has two were counted, beside an empty loop.
C11_Witness ==
    /\ lastOp.op = "countLinkedLoops"
    /\ lastOp.ret = 2
    /\ Len(LoopChain(lastOp.polygon)) = 2
    /\ \E loop \in LiveLoops : heap.loop[loop].first = NULL
    /\ \E loop \in LiveLoops : heap.loop[loop].first # NULL

\* ----------------------------------------------------------------- C12
\* Positions of the trace at which a node is read / released.
ReadsOf(kind, id) == {i \in DOMAIN trace : trace[i] = Event("read", kind, id)}
FreesOf(kind, id) == {i \in DOMAIN trace : trace[i] = Event("free", kind, id)}

\* Field reads destroy makes of a node before releasing it: next of a
\* coordinate; first and next of a loop; first and next of a polygon.
ReadsBeforeFree(kind) == IF kind = "coord" THEN 1 ELSE 2

\* C12: during destroyLinkedPolygon no field of a node is read after the node
\* has been released: every read of a released node precedes its release,
\* and all the reads destroy makes of it have been made by then.
C12_NoReadAfterFree ==
    destroys = 1 =>
        \A kind \in {"polygon", "loop", "coord"} :
            \A id \in DOMAIN heap[kind] :
                \A f \in FreesOf(kind, id) :
                    /\ \A r \in ReadsOf(kind, id) : r < f
                    /\ Cardinality(ReadsOf(kind, id)) = ReadsBeforeFree(kind)

\* A coordinate, its loop and a second polygon were read and then released.
C12_Witness ==
    /\ destroys = 1
    /\ \E c \in CoordIds : FreesOf("coord", c) # {}
    /\ \E l \in LoopIds : FreesOf("loop", l) # {} /\ heap.loop[l].first # NULL
    /\ \E q \in PolygonIds : FreesOf("polygon", q) # {}

\* ----------------------------------------------------------------- C13
AppendOps == {"addNewLinkedLoop", "addLinkedLoop", "addLinkedCoord"}

\* The list head an append call was given, in heap h.
HeadOf(h, call) ==
    IF call.op = "addLinkedCoord" THEN h.loop[call.loop] ELSE h.polygon[call.polygon]

FirstWithoutLast(head) == head.first # NULL /\ head.last = NULL
LastWithoutFirst(head) == head.first = NULL /\ head.last # NULL

\* C13 as stated: a mismatch between first and last of the head given to an
\* append is caught by an assertion in both directions.
C13_MismatchAssertedBothWays ==
    [][(/\ lastOp'.op \in AppendOps
        /\ lastOp'.mem
        /\ FirstWithoutLast(HeadOf(heap, lastOp'))
               \/ LastWithoutFirst(HeadOf(heap, lastOp')))
       => halted' = "assert_first"]_vars

\* C13 (amended): the mismatch is caught by an assertion in one direction
\* only.  An append on a head with first set and last unset fails
\* assert(first == NULL); an append on a head with first unset and last set
\* fires no assertion: it links the new node after last, makes it last and
\* leaves first unset.
C13_MismatchAssertedOneWay ==
    [][(lastOp'.op \in AppendOps /\ lastOp'.mem) =>
          /\ (halted' = "assert_first") <=> FirstWithoutLast(HeadOf(heap, lastOp'))
          /\ LastWithoutFirst(HeadOf(heap, lastOp')) =>
                 /\ lastOp'.out = "ok"
                 /\ HeadOf(heap', lastOp').first = NULL
                 /\ HeadOf(heap', lastOp').last = lastOp'.ret
                 /\ heap'[IF lastOp'.op = "addLinkedCoord" THEN "coord" ELSE "loop"]
                         [HeadOf(heap, lastOp').last].next = lastOp'.ret]_vars

\* An append went through on a loop whose first the caller had cleared.
C13_Witness ==
    /\ lastOp.op = "addLinkedCoord"
    /\ lastOp.out = "ok"
    /\ heap.loop[lastOp.loop].first = NULL
    /\ heap.loop[lastOp.loop].last = lastOp.ret
    /\ Len(coordCalls[lastOp.loop]) = 2

\* ----------------------------------------------------------------- C14
\* The chain of the first polygon owns a loop or a polygon other than the
\* first one (told from the calls that built it).
ChainOwnsNodes == polyCalls # <<>> \/ \E p \in PolygonIds : loopCalls[p] # <<>>

\* An access (read or free) to a node that an earlier event had released.
AccessAfterFree(i) ==
    \E f \in 1..(i - 1) : trace[f] = Event("free", trace[i][2], trace[i][3])

\* C14: destroyLinkedPolygon is not idempotent.  It leaves first and next of
\* the first polygon as they were, so a second destroyLinkedPolygon on it,
\* when the chain owned at least one loop or one further polygon, accesses a
\* node the first call released (undefined behaviour); a chain destroyed once
\* sees no access to a released node.
C14_DestroyNotIdempotent ==
    /\ destroys >= 1 =>
          /\ heap.polygon[HeadPolygon].first =
                 (IF loopCalls[HeadPolygon] = <<>> THEN NULL
                  ELSE loopCalls[HeadPolygon][1])
          /\ heap.polygon[HeadPolygon].next =
                 (IF polyCalls = <<>> THEN NULL ELSE polyCalls[1].ret)
    /\ destroys = 1 =>
          /\ halted # "undefined"
          /\ \A i \in DOMAIN trace : ~AccessAfterFree(i)
    /\ destroys = 2 =>
          /\ (halted = "undefined") <=> ChainOwnsNodes
          /\ ChainOwnsNodes =>
                 \E i \in DOMAIN trace : trace[i][1] = "read" /\ AccessAfterFree(i)

\* A second destroy has read a released loop and released it and a
\* coordinate a second time.
C14_Witness ==
    /\ destroys = 2
    /\ halted = "undefined"
    /\ \E l \in LoopIds :
          /\ FreeCount("loop", l) = 2
          /\ \E i \in DOMAIN trace : trace[i] = Event("read", "loop", l) /\ AccessAfterFree(i)
    /\ \E c \in CoordIds : FreeCount("coord", c) = 2

\* ----------------------------------------------------------------- C15
\* The memory events of the step just taken.
StepLog == SubSeq(trace', Len(trace) + 1, Len(trace'))

\* C15: destroyLinkedGeoLoop releases every coordinate reachable from
\* loop.first exactly once and nothing else: the loop stays allocated and its
\* first, last and next are not written.  destroyLinkedPolygon releases a
\* loop right after reading its next, once the loop's coordinates are
\* released.
C15_LoopDestructor ==
    [][/\ (lastOp'.op = "destroyLinkedGeoLoop" /\ destroys = 0) =>
            LET loop == lastOp'.loop
                coords == Range(CoordChain(loop))
            IN  /\ halted' = "no"
                /\ heap'.loop = heap.loop
                /\ heap'.polygon = heap.polygon
                /\ \A c \in CoordIds :
                      heap'.coord[c] = IF c \in coords
                                       THEN [heap.coord[c] EXCEPT !.st = "freed"]
                                       ELSE heap.coord[c]
                /\ \A c \in coords :
                      Cardinality({i \in DOMAIN StepLog :
                                      StepLog[i] = Event("free", "coord", c)}) = 1
                /\ \A i \in DOMAIN StepLog :
                      StepLog[i][1] = "free" =>
                          StepLog[i][2] = "coord" /\ StepLog[i][3] \in coords
       /\ (lastOp'.op = "destroyLinkedPolygon" /\ destroys = 0) =>
            \A i \in DOMAIN StepLog : \A l \in LoopIds :
                StepLog[i] = Event("free", "loop", l) =>
                    /\ i > 1
                    /\ StepLog[i - 1] = Event("read", "loop", l)
                    /\ \A c \in Range(CoordChain(l)) :
                          \E j \in 1..(i - 1) : StepLog[j] = Event("free", "coord", c)
      ]_vars

\* destroyLinkedGeoLoop was called on a loop of two coordinates: both are
\* released, the loop is not and still refers to them.
C15_Witness ==
    /\ lastOp.op = "destroyLinkedGeoLoop"
    /\ destroys = 1
    /\ Len(CoordChain(lastOp.loop)) = 2
    /\ \A c \in Range(CoordChain(lastOp.loop)) :
          heap.coord[c].st = "freed" /\ FreeCount("coord", c) = 1
    /\ heap.loop[lastOp.loop].st = "live"
    /\ heap.loop[lastOp.loop].first # NULL

\* ----------------------------------------------------------------- C16
\* The nodes destroyLinkedPolygon traverses: the polygons of the chain, their
\* loops and the loops' coordinates.
Traversed(kind) == IF kind = "polygon" THEN ChainPolygons ELSE Owned(kind)

\* C16: on a structure built from the zeroed first polygon by the
\* construction operations with fresh nodes, the three counts and
\* destroyLinkedPolygon terminate and visit each node of the chains they
\* walk exactly once: a count returns the number of distinct nodes of its
\* chain, and destroyLinkedPolygon reads each polygon and loop for its two
\* links and each coordinate for its one link, and no other node.
C16_TraversalsTerminate ==
    /\ lastOp.op \in CountOps =>
          /\ lastOp.ret # Diverges
          /\ lastOp.ret = Cardinality(Range(CountedChain(lastOp)))
    /\ (lastOp.op = "destroyLinkedPolygon" /\ destroys = 1) =>
          /\ lastOp.out = "ok"
          /\ \A kind \in {"polygon", "loop", "coord"} :
                \A id \in DOMAIN heap[kind] :
                    Cardinality(ReadsOf(kind, id)) =
                        IF id \in Traversed(kind) THEN ReadsBeforeFree(kind) ELSE 0
          /\ Len(trace) = 2 * Cardinality(ChainPolygons) + Cardinality(OwnedPolygons)
                          + 3 * Cardinality(OwnedLoops) + 2 * Cardinality(OwnedCoords)

\* A destroy walked two polygons, two loops and a coordinate: thirteen
\* memory events.
C16_Witness ==
    /\ lastOp.op = "destroyLinkedPolygon"
    /\ destroys = 1
    /\ Cardinality(ChainPolygons) = 2
    /\ Cardinality(OwnedLoops) = 2
    /\ Cardinality(OwnedCoords) = 1
    /\ Len(trace) = 13

\* ----------------------------------------------------------------- C17
AllAppendOps == AppendOps \cup {"addNewLinkedPolygon"}

\* The node whose next an append call may set: the tail of the list it
\* appends to, as <<kind, id>> (id is NULL for an empty list).
FormerTail(call) ==
    CASE call.op = "addNewLinkedPolygon" -> <<"polygon", call.polygon>>
      [] call.op = "addLinkedCoord" -> <<"coord", heap.loop[call.loop].last>>
      [] OTHER -> <<"loop", heap.polygon[call.polygon].last>>

\* The list head whose first and last an append call may set.
AffectedHead(call) ==
    CASE call.op = "addNewLinkedPolygon" -> <<"none", NULL>>
      [] call.op = "addLinkedCoord" -> <<"loop", call.loop>>
      [] OTHER -> <<"polygon", call.polygon>>

\* C17: an append called with fresh nodes on a well-formed structure writes,
\* among the nodes that existed before it, only the next of the former tail,
\* which was unset, and first and last of the head it appends to.  It never
\* overwrites a set next, never changes a stored vertex, and leaves the
\* contents and order of every other loop and polygon as they were;
\* addLinkedLoop writes no field of the loop it attaches.
C17_AppendWritesOnlyTail ==
    [][lastOp'.op \in AllAppendOps =>
         LET call == lastOp' IN
         /\ \A kind \in {"polygon", "loop", "coord"} :
               \A id \in DOMAIN heap[kind] :
                   heap[kind][id].st = "live" =>
                       /\ heap'[kind][id].st = "live"
                       /\ heap[kind][id].next # NULL =>
                              heap'[kind][id].next = heap[kind][id].next
                       /\ heap'[kind][id].next # heap[kind][id].next =>
                              /\ <<kind, id>> = FormerTail(call)
                              /\ heap'[kind][id].next = call.ret
                       /\ kind = "coord" =>
                              heap'.coord[id].vertex = heap.coord[id].vertex
                       /\ (kind # "coord" /\ <<kind, id>> # AffectedHead(call)) =>
                              /\ heap'[kind][id].first = heap[kind][id].first
                              /\ heap'[kind][id].last = heap[kind][id].last
         /\ \A l \in LiveLoops :
               <<"loop", l>> # AffectedHead(call) =>
                   /\ CoordChain(l)' = CoordChain(l)
                   /\ PointsOf(l)' = PointsOf(l)
         /\ \A p \in LivePolygons :
               <<"polygon", p>> # AffectedHead(call) => LoopChain(p)' = LoopChain(p)
         /\ call.op = "addLinkedLoop" => heap'.loop[call.loop] = heap.loop[call.loop]
      ]_vars

\* A loop holding a coordinate was attached as the second loop of a polygon.
C17_Witness ==
    /\ lastOp.op = "addLinkedLoop"
    /\ lastOp.out = "ok"
    /\ Len(LoopChain(lastOp.polygon)) = 2
    /\ LoopChain(lastOp.polygon)[2] = lastOp.loop
    /\ Len(CoordChain(lastOp.loop)) = 1
    /\ heap.loop[lastOp.loop].next = NULL

\* ----------------------------------------------------------------- C18
Released(kind, id) == id # NULL /\ heap[kind][id].st = "freed"

\* C18: destroyLinkedPolygon writes no field of any polygon, loop or
\* coordinate.  After it returns, first, last and next of the first polygon
\* hold the references they held before the call, which now refer to
\* released nodes when the chain owned a loop or a further polygon: the
\* first polygon is not reset to first = last = next = NULL.
C18_DestroyWritesNoField ==
    [][(lastOp'.op = "destroyLinkedPolygon" /\ destroys = 0) =>
         /\ \A kind \in {"polygon", "loop", "coord"} :
               \A id \in DOMAIN heap[kind] :
                   heap'[kind][id] = [heap[kind][id] EXCEPT !.st = heap'[kind][id].st]
         /\ heap'.polygon[HeadPolygon] = heap.polygon[HeadPolygon]
         /\ \A field \in {"first", "last"} :
               heap.polygon[HeadPolygon][field] # NULL =>
                   heap'.loop[heap'.polygon[HeadPolygon][field]].st = "freed"
         /\ heap.polygon[HeadPolygon].next # NULL =>
               heap'.polygon[heap'.polygon[HeadPolygon].next].st = "freed"
         /\ ChainOwnsNodes =>
               \/ heap'.polygon[HeadPolygon].first # NULL
               \/ heap'.polygon[HeadPolygon].next # NULL
      ]_vars

\* After one destroy, first, last and next of the first polygon all refer
\* to released nodes.
C18_Witness ==
    /\ lastOp.op = "destroyLinkedPolygon"
    /\ destroys = 1
    /\ heap.polygon[HeadPolygon].st = "live"
    /\ Released("loop", heap.polygon[HeadPolygon].first)
    /\ Released("loop", heap.polygon[HeadPolygon].last)
    /\ heap.polygon[HeadPolygon].first # heap.polygon[HeadPolygon].last
    /\ Released("polygon", heap.polygon[HeadPolygon].next)

====
